---- MODULE Spec2Model ----
(***************************************************************************)
(* pcast: same-size tagged record conversions.                             *)
(*                                                                         *)
(* One record of 8 bytes of storage is modelled together with its owner,   *)
(* the references that are live over it and the result of the last call.   *)
(* The conversions of subtype_of! (src/lib.rs) and the wrapper views of    *)
(* src/viewtest.rs act on that storage; typed access goes through the      *)
(* field offsets of the #[repr(C)] layouts.                                *)
(***************************************************************************)
EXTENDS Integers, Sequences, FiniteSets, Bags

VARIABLES mem, alive, ty, refs, ret

vars == << mem, alive, ty, refs, ret >>

---------------------------------------------------------------------------
(* Bounds of the model *)

\* discriminants 0 .. MaxDisc are given to Packet::new
MaxDisc == 2
\* at most MaxRefs references are live at once
MaxRefs == 4

---------------------------------------------------------------------------
(* Types and layouts *)

\* number of payload bytes of Packet
DataLen == 7
\* the packet_type the views of viewtest.rs assert on
StatusType == 2
\* u8 arithmetic
ByteMod == 256

Subtypes == { "PingPacket", "PongPacket", "StatusPacket" }

\* the types a reference or an owner can have: Packet, the subtypes of
\* lib.rs and the wrappers of viewtest.rs
ViewTypes == { "StatusRef", "StatusMutRef", "viewtest::StatusPacket" }

\* the StatusPacket of casttest.rs, with conversions written by hand
CastTypes == { "casttest::StatusPacket" }

\* the structs with the fields of a status packet
StatusStructs == { "StatusPacket", "casttest::StatusPacket" }

Types == { "Packet" } \cup Subtypes \cup ViewTypes \cup CastTypes

\* a changed Fields: StatusPacket declared as in the crate documentation
\* (lib.rs:22-29), the status bytes before the timestamp
FieldsStatusFirst(T) ==
    CASE T = "StatusPacket" ->
           << [name |-> "packet_type", size |-> 1, count |-> 1, align |-> 1],
              [name |-> "status_0", size |-> 1, count |-> 1, align |-> 1],
              [name |-> "status_1", size |-> 1, count |-> 1, align |-> 1],
              [name |-> "status_2", size |-> 1, count |-> 1, align |-> 1],
              [name |-> "ts", size |-> 1, count |-> 4, align |-> 1] >>
      [] T = "casttest::StatusPacket" ->
           << [name |-> "packet_type", size |-> 1, count |-> 1, align |-> 1],
              [name |-> "ts", size |-> 1, count |-> 4, align |-> 1],
              [name |-> "status_0", size |-> 1, count |-> 1, align |-> 1],
              [name |-> "status_1", size |-> 1, count |-> 1, align |-> 1],
              [name |-> "status_2", size |-> 1, count |-> 1, align |-> 1] >>
      [] T \in { "PingPacket", "PongPacket" } ->
           << [name |-> "packet_type", size |-> 1, count |-> 1, align |-> 1],
              [name |-> "dummy", size |-> 4, count |-> 1, align |-> 4],
              [name |-> "unused", size |-> 1, count |-> 3, align |-> 1] >>
      [] OTHER ->
           << [name |-> "packet_type", size |-> 1, count |-> 1, align |-> 1],
              [name |-> "data", size |-> 1, count |-> DataLen, align |-> 1] >>

\* the fields of each struct in declaration order: name, size of one
\* element, number of elements, alignment
Fields(T) ==
    CASE T = "Packet" ->
           << [name |-> "packet_type", size |-> 1, count |-> 1, align |-> 1],
              [name |-> "data", size |-> 1, count |-> DataLen, align |-> 1] >>
      [] T \in StatusStructs ->
           << [name |-> "packet_type", size |-> 1, count |-> 1, align |-> 1],
              [name |-> "ts", size |-> 1, count |-> 4, align |-> 1],
              [name |-> "status_0", size |-> 1, count |-> 1, align |-> 1],
              [name |-> "status_1", size |-> 1, count |-> 1, align |-> 1],
              [name |-> "status_2", size |-> 1, count |-> 1, align |-> 1] >>
      [] T \in { "PingPacket", "PongPacket" } ->
           << [name |-> "packet_type", size |-> 1, count |-> 1, align |-> 1],
              [name |-> "dummy", size |-> 4, count |-> 1, align |-> 4],
              [name |-> "unused", size |-> 1, count |-> 3, align |-> 1] >>
      [] OTHER ->
           \* the wrappers of viewtest.rs hold a Packet (or a reference to one)
           << [name |-> "packet_type", size |-> 1, count |-> 1, align |-> 1],
              [name |-> "data", size |-> 1, count |-> DataLen, align |-> 1] >>

\* #[repr(C, packed)] removes the padding
Packed(T) == T \in { "PingPacket", "PongPacket" }

AlignUp(n, a) == ((n + a - 1) \div a) * a

RECURSIVE OffsetAt(_, _)
\* byte offset of the i-th field of T under repr(C)
OffsetAt(T, i) ==
    IF i = 1 THEN 0
    ELSE LET prev == Fields(T)[i - 1]
             end == OffsetAt(T, i - 1) + prev.size * prev.count
         IN  IF Packed(T) THEN end ELSE AlignUp(end, Fields(T)[i].align)

FieldIndex(T, f) == CHOOSE i \in 1..Len(Fields(T)) : Fields(T)[i].name = f

OffsetOf(T, f) == OffsetAt(T, FieldIndex(T, f))

FieldLen(T, f) ==
    LET fd == Fields(T)[FieldIndex(T, f)] IN fd.size * fd.count

\* the largest alignment among the first i fields of T
RECURSIVE MaxAlign(_, _)
MaxAlign(T, i) ==
    IF i = 0 THEN 1
    ELSE LET a == Fields(T)[i].align
             b == MaxAlign(T, i - 1)
         IN  IF a > b THEN a ELSE b

\* size_of::<T>(): the end of the last field, padded to the alignment of
\* T unless T is packed
SizeOf(T) ==
    LET n == Len(Fields(T))
        end == OffsetAt(T, n) + Fields(T)[n].size * Fields(T)[n].count
    IN  IF Packed(T) THEN end ELSE AlignUp(end, MaxAlign(T, n))

\* the bytes of field f of a T stored in m
ReadField(T, m, f) ==
    SubSeq(m, OffsetOf(T, f) + 1, OffsetOf(T, f) + FieldLen(T, f))

\* m with the bytes of field f of a T replaced by bs
WriteField(T, m, f, bs) ==
    [i \in 1..Len(m) |->
        IF i > OffsetOf(T, f) /\ i <= OffsetOf(T, f) + FieldLen(T, f)
        THEN bs[i - OffsetOf(T, f)]
        ELSE m[i]]

---------------------------------------------------------------------------
(* Inputs *)

Discriminants == 0..MaxDisc

\* b"0123456" and b"xxxxxxx" of the tests, and the payload of a status
\* packet with node id 1 and status bytes 0xAA, 0xBB, 0xCC
Payloads ==
    { << 48, 49, 50, 51, 52, 53, 54 >>,
      << 120, 120, 120, 120, 120, 120, 120 >>,
      << 0, 0, 0, 1, 170, 187, 204 >> }

\* 0x12 and 0x34, the values the tests give to set_status_2
StatusValues == { 18, 52 }

\* the storage while no record exists
Zero == [i \in 1..SizeOf("Packet") |-> 0]

---------------------------------------------------------------------------
(* The relations declared with subtype_of! *)

\* the error type of each relation
ErrOf(S) ==
    CASE S = "PingPacket" -> "ConversionError"
      [] S = "PongPacket" -> "PongConvError"
      [] S = "StatusPacket" -> "()"

\* a changed CheckIsValidSubtype: the ping relation accepts packet_type 0
\* only
CheckPingDiscriminant(S, m) ==
    CASE S = "PingPacket" ->
           IF ReadField("Packet", m, "packet_type")[1] = 0
           THEN [ok |-> TRUE, err |-> "none"]
           ELSE [ok |-> FALSE, err |-> "ConversionError"]
      [] S = "PongPacket" -> [ok |-> FALSE, err |-> "PongConvError"]
      [] S = "StatusPacket" -> [ok |-> TRUE, err |-> "none"]

\* a changed CheckIsValidSubtype: one check for the base, whatever the
\* subtype asked for (the trait without its subtype parameter)
CheckOfFirstRelation(S, m) == [ok |-> TRUE, err |-> "none"]

\* check_is_valid_subtype of the relation Packet => S on the record in m:
\* the block given to subtype_of!
CheckIsValidSubtype(S, m) ==
    CASE S = "PingPacket" -> [ok |-> TRUE, err |-> "none"]
      [] S = "PongPacket" -> [ok |-> FALSE, err |-> "PongConvError"]
      [] S = "StatusPacket" -> [ok |-> TRUE, err |-> "none"]

\* mem::transmute::<F, T>: the same bytes, and F and T of the same size
\* (a transmute between types of different sizes does not compile; no
\* conversion of the model takes the other branch)
Transmute(F, T, m) ==
    IF SizeOf(F) = SizeOf(T) THEN m ELSE Zero

\* Deref of a subtype or of a view to the Packet it lies over
Deref(T, m) ==
    IF T \in Subtypes \cup CastTypes THEN Transmute(T, "Packet", m) ELSE m

---------------------------------------------------------------------------
(* References *)

Ref(k, T) == [kind |-> k, ty |-> T]

Live(r) == BagIn(r, refs)

NoMut == \A r \in BagToSet(refs) : r.kind = "shr"

NoRefs == BagCardinality(refs) = 0

Add(r) == refs (+) SetToBag({ r })

Remove(r) == refs (-) SetToBag({ r })

\* the result of a call: the operation, the subtype asked for, Ok / Err /
\* Panic, the error or value returned and the record the call was given
Result(op, S, res, err, val, input) ==
    [op |-> op, sub |-> S, res |-> res, err |-> err, val |-> val,
     input |-> input]

TypeOK ==
    /\ mem \in [1..SizeOf("Packet") -> 0..(ByteMod - 1)]
    /\ alive \in BOOLEAN
    /\ ty \in Types
    /\ IsABag(refs)
    /\ BagToSet(refs) \subseteq [kind : { "shr", "mut" }, ty : Types]
    /\ BagCardinality(refs) <= MaxRefs

Init ==
    /\ mem = Zero
    /\ alive = FALSE
    /\ ty = "Packet"
    /\ refs = EmptyBag
    /\ ret = Result("none", "none", "none", "none", << >>, Zero)

---------------------------------------------------------------------------
(* Packet::new, borrows of the owner, release and drop *)

\* the bytes of Packet { packet_type: pt, data: d }
PacketBytes(pt, d) ==
    WriteField("Packet", WriteField("Packet", Zero, "packet_type", << pt >>),
               "data", d)

\* Packet::new(packet_type, data)
New(pt, d) ==
    /\ ~alive
    /\ mem' = PacketBytes(pt, d)
    /\ alive' = TRUE
    /\ ty' = "Packet"
    /\ refs' = EmptyBag
    /\ ret' = Result("new", "none", "Ok", "none", << >>, mem')

\* &owned: a shared borrow of the owner, of the owner's type
BorrowShared ==
    /\ alive
    /\ NoMut
    /\ BagCardinality(refs) < MaxRefs
    /\ refs' = Add(Ref("shr", ty))
    /\ ret' = Result("borrow", "none", "Ok", "none", << >>, mem)
    /\ UNCHANGED << mem, alive, ty >>

\* &mut owned: an exclusive borrow of the owner, of the owner's type
BorrowMut ==
    /\ alive
    /\ NoRefs
    /\ refs' = Add(Ref("mut", ty))
    /\ ret' = Result("borrow_mut", "none", "Ok", "none", << >>, mem)
    /\ UNCHANGED << mem, alive, ty >>

\* a reference goes out of scope
Release(r) ==
    /\ Live(r)
    /\ refs' = Remove(r)
    /\ ret' = Result("release", "none", "Ok", "none", << >>, mem)
    /\ UNCHANGED << mem, alive, ty >>

\* the owner goes out of scope, or the value is passed to
\* swallow_status_packet
Drop ==
    /\ alive
    /\ NoRefs
    /\ alive' = FALSE
    /\ mem' = Zero
    /\ ty' = "Packet"
    /\ ret' = Result("drop", "none", "Ok", "none", << >>, mem)
    /\ UNCHANGED refs

---------------------------------------------------------------------------
(* The three conversions generated by subtype_of! *)

\* a changed OwnedOutcome: no check, as the hand-written conversion of
\* casttest.rs
OwnedOutcomeUnchecked(S, m) ==
    [res |-> "Ok", err |-> "none", mem |-> Transmute("Packet", S, m),
     alive |-> TRUE, ty |-> S]

\* a changed OwnedOutcome: the subtype is built field by field in the
\* order of the documented StatusPacket (status bytes, then timestamp)
\* instead of being transmuted
OwnedOutcomeFieldwise(S, m) ==
    LET c == CheckIsValidSubtype(S, m)
        d == ReadField("Packet", m, "data")
    IN  IF c.ok
        THEN [res |-> "Ok", err |-> "none",
              mem |-> << m[1], d[5], d[6], d[7], d[1], d[2], d[3], d[4] >>,
              alive |-> TRUE, ty |-> S]
        ELSE [res |-> "Err", err |-> c.err, mem |-> Zero,
              alive |-> FALSE, ty |-> "Packet"]

\* TryFrom<$base> for $sub: the check, then the transmute of the value; the
\* try! returns the error alone and the base is dropped with the call
OwnedOutcome(S, m) ==
    LET c == CheckIsValidSubtype(S, m)
    IN  IF c.ok
        THEN [res |-> "Ok", err |-> "none", mem |-> Transmute("Packet", S, m),
              alive |-> TRUE, ty |-> S]
        ELSE [res |-> "Err", err |-> c.err, mem |-> Zero,
              alive |-> FALSE, ty |-> "Packet"]

TryFromOwned(S) ==
    /\ alive
    /\ ty = "Packet"
    /\ NoRefs
    /\ LET o == OwnedOutcome(S, mem)
       IN  /\ mem' = o.mem
           /\ alive' = o.alive
           /\ ty' = o.ty
           /\ ret' = Result("try_from_owned", S, o.res, o.err, << >>, mem)
    /\ UNCHANGED refs

\* a changed RefOutcome: no check, as the hand-written conversion of
\* casttest.rs
RefOutcomeUnchecked(S, m, rs) ==
    [res |-> "Ok", err |-> "none", mem |-> m,
     refs |-> rs (+) SetToBag({ Ref("shr", S) })]

\* a changed RefOutcome: the reference given is used up by the call
RefOutcomeConsuming(S, m, rs) ==
    LET c == CheckIsValidSubtype(S, m)
        moved == rs (-) SetToBag({ Ref("shr", "Packet") })
    IN  IF c.ok
        THEN [res |-> "Ok", err |-> "none", mem |-> m,
              refs |-> moved (+) SetToBag({ Ref("shr", S) })]
        ELSE [res |-> "Err", err |-> c.err, mem |-> m, refs |-> moved]

\* TryFrom<&'a $base> for &'a $sub: the check, then the transmute of the
\* reference; the shared reference given is Copy and stays with the caller
RefOutcome(S, m, rs) ==
    LET c == CheckIsValidSubtype(S, m)
    IN  IF c.ok
        THEN [res |-> "Ok", err |-> "none", mem |-> m,
              refs |-> rs (+) SetToBag({ Ref("shr", S) })]
        ELSE [res |-> "Err", err |-> c.err, mem |-> m, refs |-> rs]

TryFromRef(S) ==
    /\ Live(Ref("shr", "Packet"))
    /\ BagCardinality(refs) < MaxRefs
    /\ LET o == RefOutcome(S, mem, refs)
       IN  /\ mem' = o.mem
           /\ refs' = o.refs
           /\ ret' = Result("try_from_ref", S, o.res, o.err, << >>, mem)
    /\ UNCHANGED << alive, ty >>

\* a changed MutOutcome: the view does not hold the borrow it was made
\* from, the exclusive base reference stays live beside it
MutOutcomeAliased(S, m, rs) ==
    LET c == CheckIsValidSubtype(S, m)
    IN  IF c.ok
        THEN [res |-> "Ok", err |-> "none", mem |-> m,
              refs |-> rs (+) SetToBag({ Ref("mut", S) })]
        ELSE [res |-> "Err", err |-> c.err, mem |-> m,
              refs |-> rs (-) SetToBag({ Ref("mut", "Packet") })]

\* a changed MutOutcome: no check, as the hand-written conversion of
\* casttest.rs
MutOutcomeUnchecked(S, m, rs) ==
    [res |-> "Ok", err |-> "none", mem |-> m,
     refs |-> (rs (-) SetToBag({ Ref("mut", "Packet") }))
              (+) SetToBag({ Ref("mut", S) })]

\* TryFrom<&'a mut $base> for &'a mut $sub: the exclusive reference is
\* moved into the call; on Ok it comes back as the view, with the same
\* lifetime, on Err it ends with the call
MutOutcome(S, m, rs) ==
    LET c == CheckIsValidSubtype(S, m)
        moved == rs (-) SetToBag({ Ref("mut", "Packet") })
    IN  IF c.ok
        THEN [res |-> "Ok", err |-> "none", mem |-> m,
              refs |-> moved (+) SetToBag({ Ref("mut", S) })]
        ELSE [res |-> "Err", err |-> c.err, mem |-> m, refs |-> moved]

TryFromMut(S) ==
    /\ Live(Ref("mut", "Packet"))
    /\ LET o == MutOutcome(S, mem, refs)
       IN  /\ mem' = o.mem
           /\ refs' = o.refs
           /\ ret' = Result("try_from_mut", S, o.res, o.err, << >>, mem)
    /\ UNCHANGED << alive, ty >>

---------------------------------------------------------------------------
(* Accessors and mutators *)

\* the methods taking &self that a reference to a T reaches: its own and,
\* through Deref, those of the Packet it lies over
SharedAccessors(T) ==
    CASE T = "Packet" -> { "get_raw_payload" }
      [] T \in StatusStructs -> { "get_status_2", "get_raw_payload" }
      [] T \in { "PingPacket", "PongPacket" } -> { "get_raw_payload" }
      [] T \in { "StatusRef", "StatusMutRef" } ->
           { "get_status_2", "get_raw_payload" }
      [] OTHER -> { }

\* a changed Mutators: DerefMut from the subtype to Packet
MutatorsWithDerefMut(T) ==
    CASE T = "Packet" -> { "set_raw_payload" }
      [] T \in StatusStructs -> { "set_status_2", "set_raw_payload" }
      [] T = "StatusMutRef" -> { "set_status_2", "set_raw_payload" }
      [] T \in { "PingPacket", "PongPacket" } -> { "set_raw_payload" }
      [] OTHER -> { }

\* the methods taking &mut self that an exclusive reference to a T
\* reaches: there is no DerefMut to Packet
Mutators(T) ==
    CASE T = "Packet" -> { "set_raw_payload" }
      [] T \in StatusStructs -> { "set_status_2" }
      [] T = "StatusMutRef" -> { "set_status_2" }
      [] OTHER -> { }

\* Packet::get_raw_payload, reached from a T
RawPayload(T, m) == ReadField("Packet", Deref(T, m), "data")

\* a changed Status2: the status byte before the last one
Status2OffByOne(T, m) ==
    IF T \in StatusStructs
    THEN ReadField(T, m, "status_1")[1]
    ELSE ReadField("Packet", m, "data")[6]

\* StatusPacket::get_status_2 (self.status_2) and
\* StatusRef::get_status_2 (self.0.data[6])
Status2(T, m) ==
    IF T \in StatusStructs
    THEN ReadField(T, m, "status_2")[1]
    ELSE ReadField("Packet", m, "data")[6 + 1]

\* a changed SetStatus2Mem: the status byte before the last one is written
SetStatus2MemOffByOne(T, m, v) ==
    IF T \in StatusStructs
    THEN WriteField(T, m, "status_1", << v >>)
    ELSE WriteField("Packet", m, "data",
                    [ReadField("Packet", m, "data") EXCEPT ![6] = v])

\* StatusPacket::set_status_2 (self.status_2 = v) and
\* StatusMutRef::set_status_2 (self.0.data[6] = v)
SetStatus2Mem(T, m, v) ==
    IF T \in StatusStructs
    THEN WriteField(T, m, "status_2", << v >>)
    ELSE WriteField("Packet", m, "data",
                    [ReadField("Packet", m, "data") EXCEPT ![6 + 1] = v])

\* Packet::set_raw_payload (self.data = data)
SetRawPayloadMem(m, d) == WriteField("Packet", m, "data", d)

\* a call through a live reference r; the &Packet that Deref makes from a
\* subtype or a view lasts for the call
GetRawPayload(r) ==
    /\ Live(r)
    /\ "get_raw_payload" \in SharedAccessors(r.ty)
    /\ ret' = Result("get_raw_payload", r.ty, "Ok", "none",
                     RawPayload(r.ty, mem), mem)
    /\ UNCHANGED << mem, alive, ty, refs >>

GetStatus2(r) ==
    /\ Live(r)
    /\ "get_status_2" \in SharedAccessors(r.ty)
    /\ ret' = Result("get_status_2", r.ty, "Ok", "none",
                     << Status2(r.ty, mem) >>, mem)
    /\ UNCHANGED << mem, alive, ty, refs >>

SetStatus2(r, v) ==
    /\ Live(r)
    /\ r.kind = "mut"
    /\ "set_status_2" \in Mutators(r.ty)
    /\ mem' = SetStatus2Mem(r.ty, mem, v)
    /\ ret' = Result("set_status_2", r.ty, "Ok", "none", << v >>, mem)
    /\ UNCHANGED << alive, ty, refs >>

SetRawPayload(r, d) ==
    /\ Live(r)
    /\ r.kind = "mut"
    /\ "set_raw_payload" \in Mutators(r.ty)
    /\ mem' = SetRawPayloadMem(mem, d)
    /\ ret' = Result("set_raw_payload", r.ty, "Ok", "none", d, mem)
    /\ UNCHANGED << alive, ty, refs >>

---------------------------------------------------------------------------
(* The conversion functions of viewtest.rs *)

\* assert!(self.packet_type == 2)
ViewAssert(m) == ReadField("Packet", m, "packet_type")[1] = StatusType

\* a failed assert! panics: the test unwinds, its references and its
\* record go
Panic(op) ==
    /\ alive' = FALSE
    /\ mem' = Zero
    /\ ty' = "Packet"
    /\ refs' = EmptyBag
    /\ ret' = Result(op, "StatusPacket", "Panic", "none", << >>, mem)

\* Packet::get_status_ref(&self) -> StatusRef
ViewGetStatusRef ==
    /\ alive
    /\ ty = "Packet"
    /\ NoMut
    /\ BagCardinality(refs) < MaxRefs
    /\ IF ViewAssert(mem)
       THEN /\ refs' = Add(Ref("shr", "StatusRef"))
            /\ ret' = Result("get_status_ref", "StatusPacket", "Ok", "none",
                             << >>, mem)
            /\ UNCHANGED << mem, alive, ty >>
       ELSE Panic("get_status_ref")

\* Packet::get_status_mut_ref(&mut self) -> StatusMutRef
ViewGetStatusMutRef ==
    /\ alive
    /\ ty = "Packet"
    /\ NoRefs
    /\ IF ViewAssert(mem)
       THEN /\ refs' = Add(Ref("mut", "StatusMutRef"))
            /\ ret' = Result("get_status_mut_ref", "StatusPacket", "Ok",
                             "none", << >>, mem)
            /\ UNCHANGED << mem, alive, ty >>
       ELSE Panic("get_status_mut_ref")

\* Packet::get_status(self) -> StatusPacket: the record is wrapped, nothing
\* is checked
ViewGetStatus ==
    /\ alive
    /\ ty = "Packet"
    /\ NoRefs
    /\ ty' = "viewtest::StatusPacket"
    /\ ret' = Result("get_status", "StatusPacket", "Ok", "none", << >>, mem)
    /\ UNCHANGED << mem, alive, refs >>

---------------------------------------------------------------------------
(* The conversions of casttest.rs to its StatusPacket, written by hand *)

\* TryFrom<Packet> for StatusPacket: Ok(transmute(packet)), the check is
\* left as a FIXME
CastTryFromOwned ==
    /\ alive
    /\ ty = "Packet"
    /\ NoRefs
    /\ mem' = Transmute("Packet", "casttest::StatusPacket", mem)
    /\ ty' = "casttest::StatusPacket"
    /\ ret' = Result("cast_try_from_owned", "casttest::StatusPacket", "Ok",
                     "none", << >>, mem)
    /\ UNCHANGED << alive, refs >>

\* TryFrom<&'a Packet> for &'a StatusPacket: Ok(transmute(packet_ref))
CastTryFromRef ==
    /\ Live(Ref("shr", "Packet"))
    /\ BagCardinality(refs) < MaxRefs
    /\ refs' = Add(Ref("shr", "casttest::StatusPacket"))
    /\ ret' = Result("cast_try_from_ref", "casttest::StatusPacket", "Ok",
                     "none", << >>, mem)
    /\ UNCHANGED << mem, alive, ty >>

\* TryFrom<&'a mut Packet> for &'a mut StatusPacket:
\* Ok(transmute(packet_ref))
CastTryFromMut ==
    /\ Live(Ref("mut", "Packet"))
    /\ refs' = (refs (-) SetToBag({ Ref("mut", "Packet") }))
                (+) SetToBag({ Ref("mut", "casttest::StatusPacket") })
    /\ ret' = Result("cast_try_from_mut", "casttest::StatusPacket", "Ok",
                     "none", << >>, mem)
    /\ UNCHANGED << mem, alive, ty >>

---------------------------------------------------------------------------
(* The specification *)

RefKinds == [kind : { "shr", "mut" }, ty : Types]

Next ==
    \/ \E pt \in Discriminants, d \in Payloads : New(pt, d)
    \/ BorrowShared
    \/ BorrowMut
    \/ \E r \in RefKinds : Release(r)
    \/ Drop
    \/ \E S \in Subtypes : TryFromOwned(S)
    \/ \E S \in Subtypes : TryFromRef(S)
    \/ \E S \in Subtypes : TryFromMut(S)
    \/ \E r \in RefKinds : GetRawPayload(r)
    \/ \E r \in RefKinds : GetStatus2(r)
    \/ \E r \in RefKinds, v \in StatusValues : SetStatus2(r, v)
    \/ \E r \in RefKinds, d \in Payloads : SetRawPayload(r, d)
    \/ ViewGetStatusRef
    \/ ViewGetStatusMutRef
    \/ ViewGetStatus
    \/ CastTryFromOwned
    \/ CastTryFromRef
    \/ CastTryFromMut

Spec == Init /\ [][Next]_vars

---------------------------------------------------------------------------
(* Properties *)

\* the discriminant of the record in m
PacketType(m) == ReadField("Packet", m, "packet_type")[1]

TryFromOps == { "try_from_owned", "try_from_ref", "try_from_mut" }

\* the exclusive subtype views: &mut to a subtype, and StatusMutRef
ExclusiveViews ==
    { r \in BagToSet(refs) :
        r.kind = "mut"
        /\ r.ty \in Subtypes \cup CastTypes \cup { "StatusMutRef" } }

\* the last call was a by-value downcast of a record that the predicate
\* of the subtype asked for rejects
OwnedRejected ==
    /\ ret.op = "try_from_owned"
    /\ ~CheckIsValidSubtype(ret.sub, ret.input).ok

C2_RoundTrip ==
    (ret.op = "try_from_owned" /\ CheckIsValidSubtype(ret.sub, ret.input).ok)
        => /\ ret.res = "Ok"
           /\ alive
           /\ ty = ret.sub
           /\ PacketType(Deref(ty, mem)) = PacketType(ret.input)
           /\ RawPayload(ty, mem) = ReadField("Packet", ret.input, "data")

C2_Witness ==
    /\ ret.op = "try_from_owned"
    /\ ret.res = "Ok"
    /\ ty = "StatusPacket"
    /\ PacketType(mem) = StatusType
    /\ RawPayload(ty, mem) = << 48, 49, 50, 51, 52, 53, 54 >>

\* the last call was a shared downcast to the ping subtype of a record
\* whose discriminant is not 0
PingOfNonZero ==
    /\ ret.op = "try_from_ref"
    /\ ret.sub = "PingPacket"
    /\ PacketType(ret.input) # 0

\* C3 as stated: a shared downcast to the ping subtype of a Packet whose
\* discriminant is not 0 fails with the error of the relation, and the
\* record and the shared reference to it are as before.
C3_PingRejectsMismatch ==
    PingOfNonZero =>
        /\ ret.res = "Err"
        /\ ret.err = ErrOf("PingPacket")
        /\ mem = ret.input
        /\ Live(Ref("shr", "Packet"))

\* C3 as amended: a shared downcast to the ping subtype of a Packet whose
\* discriminant is not 0 succeeds (the predicate of the relation accepts
\* every record), a shared PingPacket view is live, and the record and the
\* shared reference to it are as before.
C3_PingAcceptsAny ==
    PingOfNonZero =>
        /\ ret.res = "Ok"
        /\ ret.err = "none"
        /\ Live(Ref("shr", "PingPacket"))
        /\ mem = ret.input
        /\ alive
        /\ Live(Ref("shr", "Packet"))

C3_Witness ==
    /\ PingOfNonZero
    /\ PacketType(ret.input) = StatusType
    /\ ret.res = "Ok"
    /\ Live(Ref("shr", "PingPacket"))

\* C4 as stated, for the relations to PingPacket and PongPacket: a record
\* with discriminant 1 succeeds the first downcast and fails the second
\* with the error of the second relation, and a record with discriminant
\* 2 fails the first with the error of the first relation and succeeds the
\* second.
C4_ViceVersa ==
    ret.op \in TryFromOps =>
        /\ PacketType(ret.input) = 1 =>
              /\ ret.sub = "PingPacket" => ret.res = "Ok"
              /\ ret.sub = "PongPacket" =>
                    ret.res = "Err" /\ ret.err = ErrOf("PongPacket")
        /\ PacketType(ret.input) = 2 =>
              /\ ret.sub = "PingPacket" =>
                    ret.res = "Err" /\ ret.err = ErrOf("PingPacket")
              /\ ret.sub = "PongPacket" => ret.res = "Ok"

\* C4 as amended: a record with discriminant 1 and a record with
\* discriminant 2 alike succeed the downcast to PingPacket and fail the
\* downcast to PongPacket with PongConvError, in each of the three forms:
\* the verdict depends on the relation alone.
C4_VerdictByRelation ==
    (ret.op \in TryFromOps /\ PacketType(ret.input) \in { 1, 2 }) =>
        /\ ret.sub = "PingPacket" => ret.res = "Ok" /\ ret.err = "none"
        /\ ret.sub = "PongPacket" =>
              ret.res = "Err" /\ ret.err = ErrOf("PongPacket")

C4_Witness ==
    /\ ret.op = "try_from_mut"
    /\ ret.sub = "PongPacket"
    /\ PacketType(ret.input) = 2
    /\ ret.res = "Err"

\* C5: asymmetric mutability. In every step taken while an exclusive
\* subtype view stays live, the discriminant is unchanged and the only
\* operation that changes the record is set_status_2; the exclusive view
\* reaches no mutator of Packet, and reaches its shared accessor
\* get_raw_payload.
C5_AsymmetricMutability ==
    [][ \A r \in ExclusiveViews :
          /\ Mutators(r.ty) \subseteq { "set_status_2" }
          /\ "get_raw_payload" \in SharedAccessors(r.ty)
          /\ BagIn(r, refs') =>
                /\ PacketType(mem') = PacketType(mem)
                /\ mem' # mem => ret'.op = "set_status_2" ]_vars

C5_Witness ==
    /\ Live(Ref("mut", "StatusPacket"))
    /\ ret.op = "set_status_2"
    /\ mem # ret.input
    /\ PacketType(mem) = PacketType(ret.input)

\* C6: mutation isolation. A call of set_status_2(v) through an exclusive
\* status view leaves v in the byte at offset 7 of the record (payload
\* byte 6) and every other byte of the record, the discriminant among
\* them, as it was.
C6_MutationIsolation ==
    [][ ret'.op = "set_status_2" =>
          \A i \in 1..SizeOf("Packet") :
             mem'[i] = IF i = 7 + 1 THEN ret'.val[1] ELSE mem[i] ]_vars

C6_Witness ==
    /\ ret.op = "set_status_2"
    /\ ret.sub = "StatusPacket"
    /\ ret.val = << 18 >>
    /\ mem[7 + 1] = 18
    /\ ret.input[7 + 1] = 54
    /\ \A i \in 1..7 : mem[i] = ret.input[i]

\* a shared borrow of the owner can be taken
CanBorrowShared == alive /\ NoMut /\ BagCardinality(refs) < MaxRefs

\* an exclusive borrow of the owner can be taken
CanBorrowMut == alive /\ NoRefs

\* C7: exclusive exclusivity. While an exclusive subtype view is live it
\* is the only reference to the record, and neither a shared nor an
\* exclusive borrow of the record can be taken; in the step that releases
\* the view, the record can be borrowed exclusively again.
C7_ExclusiveExclusivity ==
    /\ [](\A r \in ExclusiveViews :
             /\ BagCardinality(refs) = 1
             /\ ~CanBorrowShared
             /\ ~CanBorrowMut
             /\ ~ENABLED BorrowShared
             /\ ~ENABLED BorrowMut
             /\ ~ENABLED ViewGetStatusRef
             /\ ~ENABLED ViewGetStatusMutRef
             /\ ~ENABLED CastTryFromRef
             /\ \A S \in Subtypes : ~ENABLED TryFromRef(S))
    /\ [][ \A r \in ExclusiveViews :
              (~BagIn(r, refs') /\ alive') => CanBorrowMut' ]_vars

C7_Witness ==
    /\ Live(Ref("mut", "StatusPacket"))
    /\ ret.op = "try_from_mut"
    /\ ret.res = "Ok"
    /\ BagCardinality(refs) = 1

\* C8: borrow non-interference. A shared downcast, accepted or rejected,
\* leaves every byte of the record as it was, and every reference that
\* was live before it, the shared reference it was given among them, is
\* live after it.
C8_BorrowNonInterference ==
    [][ ret'.op = "try_from_ref" =>
          /\ mem' = mem
          /\ alive' = alive
          /\ ty' = ty
          /\ BagIn(Ref("shr", "Packet"), refs')
          /\ \A r \in BagToSet(refs) : CopiesIn(r, refs') >= CopiesIn(r, refs)
          /\ ret'.res = "Err" => refs' = refs ]_vars

\* several shared subtype views, of the same and of different subtypes,
\* live over one record beside the shared reference they were made from
C8_Witness ==
    /\ Live(Ref("shr", "Packet"))
    /\ CopiesIn(Ref("shr", "StatusPacket"), refs) = 2
    /\ Live(Ref("shr", "PingPacket"))
    /\ ret.op = "try_from_ref"

\* the last call was a downcast entry point applied to a record that is
\* not an instance of the subtype asked for: a try_from whose predicate
\* rejects the record, or a conversion function of viewtest.rs on a
\* record whose packet_type is not 2
NotAnInstance ==
    \/ /\ ret.op \in TryFromOps
       /\ ~CheckIsValidSubtype(ret.sub, ret.input).ok
    \/ /\ ret.op \in { "get_status_ref", "get_status_mut_ref", "get_status" }
       /\ ~ViewAssert(ret.input)

ScenarioRecord == PacketBytes(StatusType, << 0, 0, 0, 1, 170, 187, 204 >>)

\* C10: status view accessor. The shared downcast of the scenario record
\* to the status subtype succeeds and get_status_2 on it returns 0xCC;
\* for every record, get_status_2 on a status view returns the last
\* payload byte (payload index 6) of the record.
C10_StatusAccessor ==
    /\ (ret.op = "try_from_ref" /\ ret.sub = "StatusPacket"
           /\ ret.input = ScenarioRecord)
          => ret.res = "Ok" /\ Live(Ref("shr", "StatusPacket"))
    /\ ret.op = "get_status_2" =>
          /\ ret.val = << ReadField("Packet", ret.input, "data")[6 + 1] >>
          /\ ret.input = ScenarioRecord => ret.val = << 204 >>

C10_Witness ==
    /\ ret.op = "get_status_2"
    /\ ret.sub = "StatusPacket"
    /\ Live(Ref("shr", "StatusPacket"))
    /\ mem = ScenarioRecord
    /\ ret.val = << 204 >>

\* the types that stand for a status packet: the StatusPacket of lib.rs
\* and of casttest.rs, and the wrappers of viewtest.rs
StatusKinds == StatusStructs \cup ViewTypes

\* the types of the subtype values and views that are live over the record
LiveSubtypeTypes ==
    ((IF alive THEN { ty } ELSE { }) \cup { r.ty : r \in BagToSet(refs) })
        \ { "Packet" }

\* C11: view validity. Every live subtype value or view lies over a record
\* that satisfies the validity predicate of its subtype; a status value or
\* view exists only over a record whose packet_type is 0x02, and no
\* PongPacket value or view exists.
C11_ViewValidity ==
    \A T \in LiveSubtypeTypes :
        /\ T \in Subtypes => CheckIsValidSubtype(T, mem).ok
        /\ T \in StatusKinds => PacketType(mem) = StatusType
        /\ T # "PongPacket"

\* C12: predicate gating and agreement of the three forms. Each generated
\* downcast returned Ok exactly when check_is_valid_subtype accepts the
\* record it was given, and otherwise Err with the error of the predicate;
\* on the bytes of any record reached, the by-value, shared and exclusive
\* forms give the same verdict and error for each relation; the record is
\* as it was wherever it is still held.
C12_PredicateGating ==
    /\ ret.op \in TryFromOps =>
          LET c == CheckIsValidSubtype(ret.sub, ret.input)
          IN  /\ ret.res = (IF c.ok THEN "Ok" ELSE "Err")
              /\ ret.err = c.err
              /\ alive => mem = ret.input
    /\ alive =>
          \A S \in Subtypes :
             LET c == CheckIsValidSubtype(S, mem)
                 o == OwnedOutcome(S, mem)
                 r == RefOutcome(S, mem, refs)
                 x == MutOutcome(S, mem, refs)
                 verdict == IF c.ok THEN "Ok" ELSE "Err"
             IN  /\ o.res = verdict /\ r.res = verdict /\ x.res = verdict
                 /\ o.err = c.err /\ r.err = c.err /\ x.err = c.err
                 /\ r.mem = mem /\ x.mem = mem
                 /\ c.ok => o.mem = mem

C12_Witness ==
    /\ ret.op = "try_from_ref"
    /\ ret.sub = "PongPacket"
    /\ ret.res = "Err"
    /\ ret.err = "PongConvError"
    /\ alive
    /\ mem = ret.input
    /\ PacketType(mem) = 1

\* the payload d with byte 6 replaced by v
WithStatus2(d, v) == [d EXCEPT ![6 + 1] = v]

\* C13: subtype and base accessors read the same memory. After
\* set_status_2(v) through an exclusive status view, get_status_2 through
\* the view returns v, and get_raw_payload returns the payload the record
\* had before the call with byte 6 replaced by v, through the view (Deref)
\* and through the base; releasing the view and borrowing the record again
\* leave the bytes as they are, and get_raw_payload through any reference
\* returns the payload bytes of the record.
C13_SameMemory ==
    /\ [](ret.op = "set_status_2" =>
             LET v == ret.val[1]
                 d == ReadField("Packet", ret.input, "data")
             IN  /\ Live(Ref("mut", ret.sub))
                 /\ Status2(ret.sub, mem) = v
                 /\ RawPayload(ret.sub, mem) = WithStatus2(d, v)
                 /\ RawPayload("Packet", mem) = WithStatus2(d, v))
    /\ [](ret.op = "get_raw_payload" =>
             ret.val = ReadField("Packet", mem, "data"))
    /\ [][ /\ (ret.op = "set_status_2" /\ ret'.op = "get_status_2")
               => ret'.val = ret.val
           /\ (ret.op = "set_status_2" /\ ret'.op = "get_raw_payload")
               => ret'.val = WithStatus2(ReadField("Packet", ret.input, "data"),
                                         ret.val[1])
           /\ ret'.op \in { "release", "borrow", "borrow_mut" }
               => mem' = mem ]_vars

C13_Witness ==
    /\ ret.op = "get_raw_payload"
    /\ ret.sub = "StatusPacket"
    /\ Live(Ref("mut", "StatusPacket"))
    /\ PacketType(mem) = StatusType
    /\ ret.val = << 48, 49, 50, 51, 52, 53, 18 >>

====
